---------------------------- MODULE Spec2Model ----------------------------
(***************************************************************************)
(* merry-plugin-npm: the Git identity resolver (user.ts), the package name *)
(* normalizer (utils.ts) and the `npm <name>` command (index.ts).          *)
(*                                                                         *)
(* Strings are sequences of one-character strings.  A JavaScript value     *)
(* that may be undefined is a record [t, s]: Undefined, or Str(s).         *)
(* Three specifications share the variables:                               *)
(*   Spec      the identity resolver called any number of times while the  *)
(*             working directory and the Git installation change;          *)
(*   SpecNames the name normalizer applied to every bounded name;          *)
(*   SpecGen   one run of the command's action handler.                    *)
(***************************************************************************)
EXTENDS Integers, Sequences, FiniteSets

VARIABLES
    \* ---- process and environment (user.ts reads them)
    cwd,            \* process.cwd()
    gitInstalled,   \* whether shell.which('git') finds an executable
    \* ---- user.ts module state
    nameCache,      \* Map: directory -> value
    emailCache,     \* Map: directory -> value
    \* ---- observation of the resolver
    last,           \* the call made by the step just taken (NoCall otherwise)
    resolved,       \* [key][dir]: first non-empty value a call returned there
    lastEmpty,      \* [key][dir]: the most recent call there yielded nothing
    \* ---- name normalizer harness
    nm,             \* the input name
    nres,           \* what was applied to it, and the result
    \* ---- the command's action handler (index.ts)
    pc,             \* position of the async handler
    options,        \* commander options
    answers,        \* prompt answers
    tpl,            \* the generation context
    actions,        \* the action list handed to runActions
    events,         \* external calls made so far, in order
    outcome         \* how the handler's promise settled

userVars == <<cwd, gitInstalled, nameCache, emailCache, last, resolved, lastEmpty>>
nameVars == <<nm, nres>>
genVars  == <<pc, options, answers, tpl, actions, events, outcome>>
vars     == <<cwd, gitInstalled, nameCache, emailCache, last, resolved, lastEmpty,
              nm, nres, pc, options, answers, tpl, actions, events, outcome>>

-----------------------------------------------------------------------------
(* Bounds *)

\* longest value a Git configuration key holds in the model
MaxValLen == 2
\* longest package name fed to the name normalizer
MaxLen == 5

-----------------------------------------------------------------------------
(* JavaScript values *)

Undefined == [t |-> "undefined", s |-> <<>>]
Str(s)    == [t |-> "string", s |-> s]

\* if (name): undefined and the empty string are falsy
Truthy(v) == v.t = "string" /\ v.s # <<>>

\* Map.get / Map.set / Map.has on a map held as a function
MapHas(m, k) == k \in DOMAIN m
MapGet(m, k) == IF k \in DOMAIN m THEN m[k] ELSE Undefined
MapSet(m, k, v) == [x \in (DOMAIN m) \cup {k} |-> IF x = k THEN v ELSE m[x]]
EmptyMap == [x \in {} |-> Undefined]

Whitespace == {" ", "\n"}

RECURSIVE TrimStart(_)
TrimStart(s) ==
    IF s # <<>> /\ Head(s) \in Whitespace THEN TrimStart(Tail(s)) ELSE s

RECURSIVE TrimEnd(_)
TrimEnd(s) ==
    IF s # <<>> /\ s[Len(s)] \in Whitespace
    THEN TrimEnd(SubSeq(s, 1, Len(s) - 1)) ELSE s

\* String.prototype.trim
Trim(s) == TrimEnd(TrimStart(s))

-----------------------------------------------------------------------------
(* Environment of the identity resolver *)

Dirs == {"A", "B"}
Keys == {"name", "email"}

SeqsUpTo(S, n) == UNION {[1..k -> S] : k \in 0..n}

\* values a key may be configured to (a quoted value may hold blanks)
ConfigValues == SeqsUpTo({"x", " "}, MaxValLen) \ {<<>>}

\* what `git config --get <key>` prints: nothing when the key is unset (or
\* the command fails), else the value and a newline
Stdouts == {<<>>} \cup {v \o <<"\n">> : v \in ConfigValues}


-----------------------------------------------------------------------------
(* user.ts: user.git.name / user.git.email *)

\* Variants of user.git.name with one plausible slip each.
\* the early return on a cached value is missing
UserGitName_NoCacheHit(cache, dir, installed, stdout) ==
    LET name == MapGet(cache, dir) IN
    IF installed
    THEN LET v == Str(Trim(stdout)) IN
         [ret |-> v, cache |-> MapSet(cache, dir, v),
          which |-> TRUE, execed |-> TRUE]
    ELSE [ret |-> name, cache |-> cache, which |-> TRUE, execed |-> FALSE]

\* the early return tests cache.has(dir) instead of the value's truthiness
UserGitName_NegativeCaching(cache, dir, installed, stdout) ==
    LET name == MapGet(cache, dir) IN
    IF MapHas(cache, dir)
    THEN [ret |-> name, cache |-> cache, which |-> FALSE, execed |-> FALSE]
    ELSE IF installed
    THEN LET v == Str(Trim(stdout)) IN
         [ret |-> v, cache |-> MapSet(cache, dir, v),
          which |-> TRUE, execed |-> TRUE]
    ELSE [ret |-> name, cache |-> cache, which |-> TRUE, execed |-> FALSE]

\* the cache is keyed by a constant instead of process.cwd()
UserGitName_GlobalKey(cache, dir, installed, stdout) ==
    LET name == MapGet(cache, "A") IN
    IF Truthy(name)
    THEN [ret |-> name, cache |-> cache, which |-> FALSE, execed |-> FALSE]
    ELSE IF installed
    THEN LET v == Str(Trim(stdout)) IN
         [ret |-> v, cache |-> MapSet(cache, "A", v),
          which |-> TRUE, execed |-> TRUE]
    ELSE [ret |-> name, cache |-> cache, which |-> TRUE, execed |-> FALSE]

\* nameCache.set is placed after the if (shell.which('git')) block
UserGitName_SetOutsideIf(cache, dir, installed, stdout) ==
    LET name == MapGet(cache, dir) IN
    IF Truthy(name)
    THEN [ret |-> name, cache |-> cache, which |-> FALSE, execed |-> FALSE]
    ELSE IF installed
    THEN LET v == Str(Trim(stdout)) IN
         [ret |-> v, cache |-> MapSet(cache, dir, v),
          which |-> TRUE, execed |-> TRUE]
    ELSE [ret |-> name, cache |-> MapSet(cache, dir, name),
          which |-> TRUE, execed |-> FALSE]

\* user.git.name(): dir is process.cwd(), installed is shell.which('git'),
\* stdout is what the exec prints if it runs.  Returns the value, the cache
\* after the call, and whether which / exec were invoked.
UserGitName(cache, dir, installed, stdout) ==
    LET name == MapGet(cache, dir) IN
    IF Truthy(name)
    THEN [ret |-> name, cache |-> cache, which |-> FALSE, execed |-> FALSE]
    ELSE IF installed
    THEN LET v == Str(Trim(stdout)) IN
         [ret |-> v, cache |-> MapSet(cache, dir, v),
          which |-> TRUE, execed |-> TRUE]
    ELSE [ret |-> name, cache |-> cache, which |-> TRUE, execed |-> FALSE]

\* user.git.email(): the same code over emailCache and user.email
UserGitEmail(cache, dir, installed, stdout) ==
    LET email == MapGet(cache, dir) IN
    IF Truthy(email)
    THEN [ret |-> email, cache |-> cache, which |-> FALSE, execed |-> FALSE]
    ELSE IF installed
    THEN LET v == Str(Trim(stdout)) IN
         [ret |-> v, cache |-> MapSet(cache, dir, v),
          which |-> TRUE, execed |-> TRUE]
    ELSE [ret |-> email, cache |-> cache, which |-> TRUE, execed |-> FALSE]

-----------------------------------------------------------------------------
(* Observation of a resolver call *)

NoCall == [fn |-> "none", ret |-> Undefined, which |-> FALSE, execed |-> FALSE,
           stdout |-> <<>>, prior |-> Undefined, priorEmpty |-> FALSE,
           cached |-> Undefined]

\* the record of a call of key k made in the current state with result r;
\* stdout is what `git config --get` prints in cwd at that moment (run or not),
\* prior / priorEmpty / cached are the histories and cwd's entry before the call
Observe(k, r, cache, out) ==
    [fn |-> k, ret |-> r.ret, which |-> r.which, execed |-> r.execed,
     stdout |-> out,
     prior |-> resolved[k][cwd], priorEmpty |-> lastEmpty[k][cwd],
     cached |-> MapGet(cache, cwd)]

\* the histories after a call of key k returned v in the current directory
ResolvedAfter(k, v) ==
    IF Truthy(v) /\ ~Truthy(resolved[k][cwd])
    THEN [resolved EXCEPT ![k][cwd] = v] ELSE resolved
LastEmptyAfter(k, v) == [lastEmpty EXCEPT ![k][cwd] = ~Truthy(v)]

UserInit ==
    /\ cwd \in Dirs
    /\ gitInstalled \in BOOLEAN
    /\ nameCache = EmptyMap
    /\ emailCache = EmptyMap
    /\ last = NoCall
    /\ resolved = [k \in Keys |-> [d \in Dirs |-> Undefined]]
    /\ lastEmpty = [k \in Keys |-> [d \in Dirs |-> FALSE]]

\* a caller invokes user.git.name()
CallGitName ==
    \E out \in Stdouts :
        LET r == UserGitName(nameCache, cwd, gitInstalled, out) IN
        /\ nameCache' = r.cache
        /\ last' = Observe("name", r, nameCache, out)
        /\ resolved' = ResolvedAfter("name", r.ret)
        /\ lastEmpty' = LastEmptyAfter("name", r.ret)
        /\ UNCHANGED <<cwd, gitInstalled, emailCache>>

\* a caller invokes user.git.email()
CallGitEmail ==
    \E out \in Stdouts :
        LET r == UserGitEmail(emailCache, cwd, gitInstalled, out) IN
        /\ emailCache' = r.cache
        /\ last' = Observe("email", r, emailCache, out)
        /\ resolved' = ResolvedAfter("email", r.ret)
        /\ lastEmpty' = LastEmptyAfter("email", r.ret)
        /\ UNCHANGED <<cwd, gitInstalled, nameCache>>

\* process.chdir(d)
Chdir ==
    \E d \in Dirs \ {cwd} :
        /\ cwd' = d
        /\ last' = NoCall
        /\ UNCHANGED <<gitInstalled, nameCache, emailCache, resolved, lastEmpty>>

\* Git is installed, or removed from the PATH, while the process runs
GitAvailabilityChanges ==
    /\ gitInstalled' = ~gitInstalled
    /\ last' = NoCall
    /\ UNCHANGED <<cwd, nameCache, emailCache, resolved, lastEmpty>>

-----------------------------------------------------------------------------
(* Idle states of the parts a specification does not exercise *)

NamesIdle == nm = <<>> /\ nres = [op |-> "none", b |-> FALSE, s |-> <<>>]

NoTpl == [moduleName |-> <<>>, repoName |-> <<>>, name |-> Undefined,
          email |-> Undefined, cli |-> "undefined", nyc |-> "undefined",
          coveralls |-> "undefined"]
NoOptions == [cli |-> "undefined", coverage |-> "undefined",
              coveralls |-> "undefined", install |-> "undefined"]
NoAnswers == [moduleName |-> <<>>, cli |-> "undefined", nyc |-> "undefined",
              coveralls |-> "undefined"]

GenIdle ==
    /\ pc = "idle"
    /\ options = NoOptions
    /\ answers = NoAnswers
    /\ tpl = NoTpl
    /\ actions = <<>>
    /\ events = <<>>
    /\ outcome = "pending"

-----------------------------------------------------------------------------
(* The identity resolver, called at will *)

Init == UserInit /\ NamesIdle /\ GenIdle

Next ==
    \/ CallGitName /\ UNCHANGED nameVars /\ UNCHANGED genVars
    \/ CallGitEmail /\ UNCHANGED nameVars /\ UNCHANGED genVars
    \/ Chdir /\ UNCHANGED nameVars /\ UNCHANGED genVars
    \/ GitAvailabilityChanges /\ UNCHANGED nameVars /\ UNCHANGED genVars

Spec == Init /\ [][Next]_vars

-----------------------------------------------------------------------------
(* Claims about the identity resolver (specification Spec) *)

CacheOf(k) == IF k = "name" THEN nameCache ELSE emailCache

\* C1: once a call in a directory has returned a non-empty value v, every
\* later call of the same resolver in that directory returns v and runs no
\* `git config` subprocess, whatever Git reports or whether Git is installed.
C1_CachedValueIsFinal ==
    (last.fn # "none" /\ Truthy(last.prior)) =>
        (last.ret = last.prior /\ ~last.execed)

\* a later call answers from the cache although Git now reports another value
C1_Witness ==
    /\ last.fn = "email"
    /\ Truthy(last.prior)
    /\ last.ret = last.prior
    /\ gitInstalled
    /\ Trim(last.stdout) # <<>>
    /\ Trim(last.stdout) # last.prior.s

\* C2: when the most recent call in a directory yielded an empty or
\* undefined result, the next call there looks for the Git executable again
\* and, when it is found, runs `git config --get` and returns what Git
\* reports at that moment (trimmed).
C2_NoNegativeCaching ==
    (last.fn # "none" /\ last.priorEmpty) =>
        /\ last.which
        /\ gitInstalled => (last.execed /\ last.ret = Str(Trim(last.stdout)))

\* a value configured after an empty lookup is picked up
C2_Witness ==
    /\ last.fn = "name"
    /\ last.priorEmpty
    /\ last.execed
    /\ Truthy(last.ret)

C3_Frame ==
    \A d \in Dirs \ {cwd} :
        /\ MapHas(nameCache', d) = MapHas(nameCache, d)
        /\ MapGet(nameCache', d) = MapGet(nameCache, d)
        /\ MapHas(emailCache', d) = MapHas(emailCache, d)
        /\ MapGet(emailCache', d) = MapGet(emailCache, d)

C3_Value ==
    last.fn # "none" => last.ret \in {Str(Trim(last.stdout)), last.cached}

\* C3: a call made in one directory leaves every other directory's entry in
\* both caches unchanged, and the value a call returns is what Git reports in
\* the directory of the call or that directory's own cached entry.
C3_DirectoriesIndependent == [][C3_Frame]_vars /\ []C3_Value

\* a call in B runs Git and returns B's value while A holds another one
C3_Witness ==
    /\ last.fn = "name"
    /\ cwd = "B"
    /\ last.execed
    /\ Truthy(last.ret)
    /\ Truthy(MapGet(nameCache, "A"))
    /\ MapGet(nameCache, "A") # last.ret
    /\ ~MapHas(emailCache, "B")

\* C4 as stated: each cache holds only non-empty values (an empty or
\* undefined lookup result leaves no entry).
C4_OnlyNonEmptyEntries ==
    \A k \in Keys : \A d \in DOMAIN CacheOf(k) : Truthy(CacheOf(k)[d])

C4_EntriesAreLookupResults ==
    /\ \A k \in Keys : \A d \in DOMAIN CacheOf(k) : CacheOf(k)[d].t = "string"
    /\ last.execed => (/\ MapHas(CacheOf(last.fn), cwd)
                       /\ CacheOf(last.fn)[cwd] = Str(Trim(last.stdout)))

C4_WritesOnlyWithGit ==
    \/ nameCache' = nameCache /\ emailCache' = emailCache
    \/ gitInstalled /\ last'.execed

\* C4 amended: each cache holds only strings that are the trimmed output of
\* a `git config` run; an entry is written only by a call that found the Git
\* executable and ran the lookup (it holds the empty string when the key is
\* unset), and a call made without Git leaves both caches as they were.
C4_CacheHoldsLookupResults ==
    []C4_EntriesAreLookupResults /\ [][C4_WritesOnlyWithGit]_vars

\* a lookup of an unset key leaves an empty-string entry
C4_Witness ==
    /\ last.fn = "name"
    /\ last.execed
    /\ last.stdout = <<>>
    /\ MapHas(nameCache, cwd)
    /\ nameCache[cwd] = Str(<<>>)

-----------------------------------------------------------------------------
(* utils.ts: scopedRegex, isScoped, repoName *)

Alphabet == {"@", "/", "a"}
Names == SeqsUpTo(Alphabet, MaxLen)

Null == <<>>

\* the pattern with its second group written (.+?): the part after the scope
\* may hold further slashes
ScopedRegexExec_RestAllowsSlash(name) ==
    LET n == Len(name)
        ends == {i \in 2..n :
                    /\ name[1] = "@"
                    /\ \A p \in 2..i : name[p] # "/"
                    /\ i + 1 <= n /\ name[i + 1] = "/"
                    /\ i + 2 <= n}
    IN  IF ends = {} THEN Null
        ELSE LET i == CHOOSE x \in ends : \A y \in ends : x <= y
             IN  <<name, SubSeq(name, 2, i), SubSeq(name, i + 2, n)>>

\* scopedRegex = /^(?:@([^/]+?)[/])([^/]+?)$/ run on name: Null when it does
\* not match, else <<whole match, group 1, group 2>>.  The match starts at
\* the first character, takes '@', then one or more non-slash characters
\* (lazily: the shortest run that lets the rest match), a '/', and one or
\* more non-slash characters up to the end of the input.
ScopedRegexExec(name) ==
    LET n == Len(name)
        ends == {i \in 2..n :
                    /\ name[1] = "@"
                    /\ \A p \in 2..i : name[p] # "/"
                    /\ i + 1 <= n /\ name[i + 1] = "/"
                    /\ i + 2 <= n
                    /\ \A p \in (i + 2)..n : name[p] # "/"}
    IN  IF ends = {} THEN Null
        ELSE LET i == CHOOSE x \in ends : \A y \in ends : x <= y
             IN  <<name, SubSeq(name, 2, i), SubSeq(name, i + 2, n)>>

\* scopedRegex.test(name)
isScoped(name) == ScopedRegexExec(name) # Null

\* repoName returning the first group (the scope) instead of the second
repoName_WrongGroup(name) ==
    IF isScoped(name) THEN ScopedRegexExec(name)[2] ELSE name

\* name.match(scopedRegex)![2] is the second group: index 3 of the tuple,
\* whose index 1 is the whole match
repoName(name) ==
    IF isScoped(name) THEN ScopedRegexExec(name)[3] ELSE name

NoResult == [op |-> "none", b |-> FALSE, s |-> <<>>]

ApplyIsScoped ==
    /\ nres.op # "isScoped"
    /\ nres' = [op |-> "isScoped", b |-> isScoped(nm), s |-> <<>>]
    /\ UNCHANGED nm

ApplyRepoName ==
    /\ nres.op # "repoName"
    /\ nres' = [op |-> "repoName", b |-> FALSE, s |-> repoName(nm)]
    /\ UNCHANGED nm

InitNames ==
    /\ nm \in Names
    /\ nres = NoResult
    /\ cwd = "A" /\ gitInstalled = TRUE
    /\ nameCache = EmptyMap /\ emailCache = EmptyMap
    /\ last = NoCall
    /\ resolved = [k \in Keys |-> [d \in Dirs |-> Undefined]]
    /\ lastEmpty = [k \in Keys |-> [d \in Dirs |-> FALSE]]
    /\ GenIdle

NextNames ==
    \/ ApplyIsScoped /\ UNCHANGED userVars /\ UNCHANGED genVars
    \/ ApplyRepoName /\ UNCHANGED userVars /\ UNCHANGED genVars

SpecNames == InitNames /\ [][NextNames]_vars

-----------------------------------------------------------------------------
(* Claims about the name normalizer (specification SpecNames) *)

\* non-empty strings without a slash, no longer than n
NoSlashParts(n) == SeqsUpTo(Alphabet \ {"/"}, n) \ {<<>>}

\* name = '@' + scope + '/' + rest, scope and rest non-empty and slash-free
ScopedForm(name) ==
    \E scope, rest \in NoSlashParts(Len(name) - 3) :
        name = <<"@">> \o scope \o <<"/">> \o rest

\* C5: isScoped(name) is true exactly when name is '@' + scope + '/' + rest
\* with scope and rest non-empty and free of '/'; "@a/b" is scoped and
\* "plain-name", "@a/b/c", "@/b", "@x/" are not.
C5_IsScopedIffScopedForm ==
    /\ nres.op = "isScoped" => (nres.b <=> ScopedForm(nm))
    /\ isScoped(<<"@", "a", "/", "b">>)
    /\ ~isScoped(<<"p", "l", "a", "i", "n", "-", "n", "a", "m", "e">>)
    /\ ~isScoped(<<"@", "a", "/", "b", "/", "c">>)
    /\ ~isScoped(<<"@", "/", "b">>)
    /\ ~isScoped(<<"@", "x", "/">>)

\* isScoped has answered false for a name with a scope and two more segments
C5_Witness ==
    /\ nres.op = "isScoped"
    /\ nm = <<"@", "a", "/", "a", "/">>
    /\ ~nres.b

\* C6: for a scoped name repoName is the segment after '@scope/' (the name
\* is '@' + scope + '/' + repoName(name), and the result holds no '/'); for
\* any other name, "@a/b/c", "@/x" and "@x/" included, it is the input.
C6_RepoNameStripsScope ==
    /\ (nres.op = "repoName" /\ ScopedForm(nm)) =>
           /\ \E scope \in NoSlashParts(Len(nm) - 3) :
                  nm = <<"@">> \o scope \o <<"/">> \o nres.s
           /\ nres.s # <<>>
           /\ \A p \in 1..Len(nres.s) : nres.s[p] # "/"
    /\ (nres.op = "repoName" /\ ~ScopedForm(nm)) => nres.s = nm
    /\ repoName(<<"@", "s", "c", "o", "p", "e", "/", "t", "h", "i", "n", "g">>)
           = <<"t", "h", "i", "n", "g">>
    /\ repoName(<<"t", "h", "i", "n", "g">>) = <<"t", "h", "i", "n", "g">>
    /\ repoName(<<"@", "a", "/", "b", "/", "c">>) = <<"@", "a", "/", "b", "/", "c">>
    /\ repoName(<<"@", "/", "x">>) = <<"@", "/", "x">>
    /\ repoName(<<"@", "x", "/">>) = <<"@", "x", "/">>

\* repoName has stripped the scope of a scoped name
C6_Witness ==
    /\ nres.op = "repoName"
    /\ nm = <<"@", "a", "@", "/", "a">>
    /\ nres.s = <<"a">>

-----------------------------------------------------------------------------
(* index.ts: the action handler of `npm <name>` *)

\* An option or a confirm answer is "undefined", "true" or "false".  The
\* string fields that only pass through to the template context
\* (moduleDescription, githubUsername / org, website) are left out.
Tri == {"undefined", "true", "false"}

\* a || b
JsOr(a, b) == IF a = "true" THEN a ELSE b

\* module names the prompt hands back (after its filter)
ModuleNames == {<<"a">>, <<"@", "a", "/", "a">>}

OptionSets == [cli : Tri, coverage : Tri, coveralls : Tri, install : Tri]

\* when: of the cli question
WhenCli(opts) == opts.cli = "undefined"
\* when: of the nyc question
WhenNyc(opts) == opts.coverage = "undefined" /\ opts.coveralls = "undefined"
\* when: of the coveralls question; x holds the answers given so far
WhenCoveralls(x, opts) ==
    JsOr(x.nyc, opts.coverage) = "true" /\ opts.coveralls = "undefined"

\* what api.prompt can resolve with: a question whose when is false leaves
\* its key unset
AnswerSets(opts) ==
    {a \in [moduleName : ModuleNames, cli : Tri, nyc : Tri, coveralls : Tri] :
        /\ (a.cli = "undefined") <=> ~WhenCli(opts)
        /\ (a.nyc = "undefined") <=> ~WhenNyc(opts)
        /\ (a.coveralls = "undefined") <=> ~WhenCoveralls(a, opts)}

\* or(option, prop)
Or(opts, ans, option, prop) ==
    IF opts[option] = "undefined" THEN ans[prop] ELSE opts[option]

\* nyc taken from the coverage option or answer alone
Nyc_IgnoresCoveralls(opts, ans) == Or(opts, ans, "coverage", "nyc")

\* const coveralls = or('coveralls'); const nyc = coveralls || or('coverage', 'nyc')
Nyc(opts, ans) ==
    JsOr(Or(opts, ans, "coveralls", "coveralls"), Or(opts, ans, "coverage", "nyc"))

Action(path, templateFile, format) ==
    [path |-> path, templateFile |-> templateFile, format |-> format]

\* the literal action list
FixedActions ==
    << Action(".prettierrc", "prettierrc", "none"),
       Action(".gitignore", "gitignore", "none"),
       Action(".travis.yml", "travis.yml", "none"),
       Action("package.json", "_package.json", "json"),
       Action("tsconfig.json", "_tsconfig.json", "json"),
       Action("tslint.json", "tslint.json", "json"),
       Action(".npmignore", "npmignore", "none"),
       Action("index.ts", "index.ts", "typescript"),
       Action("test.ts", "test.ts", "typescript"),
       Action("license", "license", "none"),
       Action("readme.md", "readme.md", "none") >>

\* the list with the cli.ts entry never pushed
BuildActions_NoCli(t, dir) ==
    [i \in 1..Len(FixedActions) |->
        Action(<<dir, t.moduleName, FixedActions[i].path>>,
               <<"./templates/", FixedActions[i].templateFile>>,
               FixedActions[i].format)]

\* the list, cli.ts pushed if (tpl.cli), then each path joined to
\* path.join(process.cwd(), tpl.moduleName) and each template prefixed
BuildActions(t, dir) ==
    LET list == IF t.cli = "true"
                THEN Append(FixedActions, Action("cli.ts", "cli.ts", "typescript"))
                ELSE FixedActions
    IN  [i \in 1..Len(list) |->
            Action(<<dir, t.moduleName, list[i].path>>,
                   <<"./templates/", list[i].templateFile>>,
                   list[i].format)]

\* the command is invoked: the questions are built and api.prompt is called
Invoke ==
    /\ pc = "idle"
    /\ \E o \in OptionSets : options' = o
    /\ events' = Append(events, "prompt")
    /\ pc' = "prompt"
    /\ UNCHANGED <<answers, tpl, actions, outcome>>
    /\ UNCHANGED userVars

\* api.prompt resolves; the handler runs on to its call of api.runActions,
\* calling user.git.name() and user.git.email() on the way (both caches are
\* updated; the observation variables of Spec are not kept here)
PromptAnswered ==
    /\ pc = "prompt"
    /\ \E a \in AnswerSets(options), outN, outE \in Stdouts :
        LET rn == UserGitName(nameCache, cwd, gitInstalled, outN)
            re == UserGitEmail(emailCache, cwd, gitInstalled, outE)
            t  == [moduleName |-> a.moduleName,
                   repoName   |-> repoName(a.moduleName),
                   name       |-> rn.ret,
                   email      |-> re.ret,
                   cli        |-> Or(options, a, "cli", "cli"),
                   nyc        |-> Nyc(options, a),
                   coveralls  |-> Or(options, a, "coveralls", "coveralls")]
        IN  /\ answers' = a
            /\ nameCache' = rn.cache
            /\ emailCache' = re.cache
            /\ tpl' = t
            /\ actions' = BuildActions(t, cwd)
    /\ events' = events \o <<"prompt:done", "runActions">>
    /\ pc' = "runActions"
    /\ UNCHANGED <<options, outcome, cwd, gitInstalled, last, resolved, lastEmpty>>

\* a rejection of api.runActions that is swallowed: the handler goes on
RunActionsRejects_Swallowed ==
    /\ pc = "runActions"
    /\ events' = events \o <<"runActions:threw", "gitInit">>
    /\ pc' = "gitInit"
    /\ UNCHANGED <<options, answers, tpl, actions, outcome>>
    /\ UNCHANGED userVars

\* api.runActions resolves: execa.shell('git init', {cwd}) is called
RunActionsResolves ==
    /\ pc = "runActions"
    /\ events' = events \o <<"runActions:done", "gitInit">>
    /\ pc' = "gitInit"
    /\ UNCHANGED <<options, answers, tpl, actions, outcome>>
    /\ UNCHANGED userVars

\* api.runActions rejects: nothing catches it, the handler's promise rejects
RunActionsRejects ==
    /\ pc = "runActions"
    /\ events' = Append(events, "runActions:threw")
    /\ outcome' = "rejected"
    /\ pc' = "done"
    /\ UNCHANGED <<options, answers, tpl, actions>>
    /\ UNCHANGED userVars

\* if (options.install) api.npm.install(cwd, '')
InstallStep(opts) == IF opts.install = "true" THEN <<"install">> ELSE <<>>

\* `git init` succeeds: the success line is logged, then the install step
GitInitSucceeds ==
    /\ pc = "gitInit"
    /\ events' = events \o <<"gitInit:done", "log:created">> \o InstallStep(options)
    /\ outcome' = "resolved"
    /\ pc' = "done"
    /\ UNCHANGED <<options, answers, tpl, actions>>
    /\ UNCHANGED userVars

\* a failure of `git init` that is logged and thrown again
GitInitFails_Rethrows ==
    /\ pc = "gitInit"
    /\ events' = events \o <<"gitInit:failed", "log:error">>
    /\ outcome' = "rejected"
    /\ pc' = "done"
    /\ UNCHANGED <<options, answers, tpl, actions>>
    /\ UNCHANGED userVars

\* `git init` fails: the catch block logs the error, then the install step
GitInitFails ==
    /\ pc = "gitInit"
    /\ events' = events \o <<"gitInit:failed", "log:error">> \o InstallStep(options)
    /\ outcome' = "resolved"
    /\ pc' = "done"
    /\ UNCHANGED <<options, answers, tpl, actions>>
    /\ UNCHANGED userVars

InitGen ==
    /\ cwd \in Dirs
    /\ gitInstalled \in BOOLEAN
    /\ nameCache = EmptyMap /\ emailCache = EmptyMap
    /\ last = NoCall
    /\ resolved = [k \in Keys |-> [d \in Dirs |-> Undefined]]
    /\ lastEmpty = [k \in Keys |-> [d \in Dirs |-> FALSE]]
    /\ NamesIdle
    /\ GenIdle

NextGen ==
    \/ Invoke /\ UNCHANGED nameVars
    \/ PromptAnswered /\ UNCHANGED nameVars
    \/ RunActionsResolves /\ UNCHANGED nameVars
    \/ RunActionsRejects /\ UNCHANGED nameVars
    \/ GitInitSucceeds /\ UNCHANGED nameVars
    \/ GitInitFails /\ UNCHANGED nameVars

SpecGen == InitGen /\ [][NextGen]_vars

-----------------------------------------------------------------------------
(* Claims about the action handler (specification SpecGen) *)

Happened(e) == \E i \in 1..Len(events) : events[i] = e

\* every occurrence of b comes after an occurrence of a
Before(a, b) ==
    \A j \in 1..Len(events) :
        events[j] = b => \E i \in 1..(j - 1) : events[i] = a

Paths == {actions[i].path[3] : i \in 1..Len(actions)}

\* C7 as stated: runActions receives 10 actions when cli is false and 11
\* when cli is true.
C7_TenFilesPlusCli ==
    Happened("runActions") =>
        Len(actions) = (IF tpl.cli = "true" THEN 11 ELSE 10)

\* C7 amended: runActions receives the eleven fixed project files, plus a
\* twelfth entry, cli.ts, if and only if the resolved cli answer is true.
C7_ElevenFilesPlusCli ==
    Happened("runActions") =>
        /\ Len(actions) = (IF tpl.cli = "true" THEN 12 ELSE 11)
        /\ Cardinality(Paths) = Len(actions)
        /\ \A i \in 1..11 : actions[i].path[3] = FixedActions[i].path
        /\ ("cli.ts" \in Paths) <=> (tpl.cli = "true")
        /\ tpl.cli = Or(options, answers, "cli", "cli")

\* the cli answer given at the prompt is true and twelve actions are handed over
C7_Witness ==
    /\ Happened("runActions")
    /\ options.cli = "undefined"
    /\ answers.cli = "true"
    /\ Len(actions) = 12
    /\ actions[12].path[3] = "cli.ts"

\* C8: when `git init` fails after runActions completed, the error is
\* caught and logged, the handler still completes successfully, and install
\* is invoked exactly when the install option is enabled, as it is after a
\* successful `git init`.
C8_GitInitFailureNotFatal ==
    /\ Happened("gitInit:failed") =>
          /\ Happened("runActions:done")
          /\ Happened("log:error")
          /\ pc = "done" /\ outcome = "resolved"
          /\ Happened("install") <=> (options.install = "true")
    /\ Happened("gitInit:done") =>
          (Happened("install") <=> (options.install = "true"))

\* `git init` failed and install ran all the same
C8_Witness ==
    /\ Happened("gitInit:failed")
    /\ options.install = "true"
    /\ Happened("install")
    /\ outcome = "resolved"

\* C9: the context handed to runActions never has coveralls true while nyc
\* is not true, whatever the options and the answers.
C9_CoverallsImpliesCoverage ==
    Happened("runActions") => ~(tpl.coveralls = "true" /\ tpl.nyc # "true")

\* --coveralls given with coverage switched off: nyc is true all the same
C9_Witness ==
    /\ Happened("runActions")
    /\ options.coveralls = "true"
    /\ options.coverage = "false"
    /\ tpl.coveralls = "true"
    /\ tpl.nyc = "true"

\* C10: the steps run in sequence: runActions starts only after the prompt
\* has resolved, `git init` only after runActions has completed without
\* throwing, install only after the `git init` attempt has finished; when
\* runActions throws the handler rejects and neither `git init` nor install
\* is invoked.
C10_StepsInSequence ==
    /\ Before("prompt", "prompt:done")
    /\ Before("prompt:done", "runActions")
    /\ Before("runActions", "runActions:done")
    /\ Before("runActions:done", "gitInit")
    /\ \A j \in 1..Len(events) :
          events[j] = "install" =>
              \E i \in 1..(j - 1) : events[i] \in {"gitInit:done", "gitInit:failed"}
    /\ Happened("runActions:threw") =>
          /\ outcome = "rejected" /\ pc = "done"
          /\ ~Happened("gitInit")
          /\ ~Happened("install")
    /\ outcome = "rejected" => Happened("runActions:threw")

\* runActions threw and the handler rejected without reaching `git init`
C10_Witness ==
    /\ Happened("runActions:threw")
    /\ outcome = "rejected"
    /\ options.install = "true"
    /\ ~Happened("gitInit")

=============================================================================
